---- MODULE Spec2Model ----
(***************************************************************************)
(* Model of the ThinkLink server: the in-memory record store               *)
(* (server/storage.ts, MemStorage), the request handlers and the WebSocket *)
(* fan-out (server/routes.ts, registerRoutes).                             *)
(*                                                                         *)
(* A JavaScript Map keeps insertion order, so each table is a sequence of  *)
(* records in insertion order.  randomUUID() is modelled by one counter    *)
(* per table: an identifier is never issued twice, and a caller can only   *)
(* name identifiers that were issued before (or NoSuchId, an identifier    *)
(* that is never issued).  Strings are sequences of one-character strings. *)
(* Every handler runs from its first statement to its response in one      *)
(* step (the store methods contain no await of their own).                 *)
(***************************************************************************)
EXTENDS Integers, Sequences, FiniteSets, TLC

\* ------------------------------------------------------------------ bounds
MaxConns == 2       \* WebSocket connections that may exist at once
MaxBlocks == 2      \* SpecLinks: identifiers createBlock may issue
MaxLinks == 2       \* SpecLinks: identifiers createLink may issue
StoreBlocks == 2    \* SpecStore: identifiers createBlock may issue
StoreLinks == 1     \* SpecStore: identifiers createLink may issue
StoreComments == 1  \* SpecStore: identifiers createComment may issue
MaxComments == 3    \* SpecThread: identifiers createComment may issue
MaxTime == 1        \* largest reading of the clock (new Date())
EditBlocks == 2     \* SpecEdit: identifiers createBlock may issue
RaceBlocks == 2     \* SpecRace: identifiers createBlock may issue
RaceLinks == 2      \* SpecRace: identifiers createLink may issue
RaceRequests == 2   \* SpecRace: POST /api/links handlers suspended at once
SearchBlocks == 2   \* SpecSearch: identifiers createBlock may issue
CacheBlocks == 1    \* SpecCache: identifiers createBlock may issue
ViewBlocks == 1     \* SpecView: identifiers createBlock may issue
ViewLocal == 1      \* SpecView: messages handleAddMessage may add
OrderBlocks == 1    \* SpecOrder: identifiers createBlock may issue
OrderEvents == 3    \* SpecOrder: mutations applied in all
OrderRequests == 2  \* SpecOrder: handlers suspended at once

\* -------------------------------------------------------------- constants
Null == 0           \* null / undefined: no identifier, no parent
NoSuchId == Null    \* stands for an identifier that no create call ever issued

Conns == 1..MaxConns
TheClient == 1      \* the connection of the browser that is looked at

VARIABLES
    blocks,         \* MemStorage.blocks, in insertion order
    links,          \* MemStorage.links, in insertion order
    comments,       \* MemStorage.comments, in insertion order
    nextBlock,      \* next identifier randomUUID() gives createBlock
    nextLink,       \* next identifier randomUUID() gives createLink
    nextComment,    \* next identifier randomUUID() gives createComment
    now,            \* the clock read by new Date()
    clients,        \* the registry (a Set, in insertion order)
    readyState,     \* readyState of each connection
    req,            \* the request handled last
    res,            \* the response to it
    delivered,      \* what each connection was sent while it was handled
    before,         \* the tables as that request found them (history)
    live,           \* connections that joined and have not since emitted
                    \* 'close' or 'error' (history)
    suspended,      \* handlers waiting at an await, in the order they
                    \* reached it
    log,            \* the events in the order their mutations were applied
                    \* and in the order each connection was sent them
                    \* (history)
    fresh,          \* the client's cached queries that are not invalidated
    view            \* the client's thread view (ThreadView)

store == <<blocks, links, comments, nextBlock, nextLink, nextComment>>
sockets == <<clients, readyState, live>>
vars == <<blocks, links, comments, nextBlock, nextLink, nextComment, now,
          clients, readyState, req, res, delivered, before, live, suspended,
          log, fresh, view>>

\* the three tables as one value
Tables == [blocks |-> blocks, links |-> links, comments |-> comments]
NoTables == [blocks |-> <<>>, links |-> <<>>, comments |-> <<>>]

\* what the atomic request handlers and the connection events leave alone
aside == <<suspended, log, fresh, view>>
browser == <<fresh, view>>

\* ------------------------------------------------------- sequence helpers
Range(s) == {s[i] : i \in DOMAIN s}

RECURSIVE Filter(_, _)
\* Array.prototype.filter with the elements to keep given as a set
Filter(s, keep) ==
    IF s = <<>> THEN <<>>
    ELSE IF Head(s) \in keep THEN <<Head(s)>> \o Filter(Tail(s), keep)
         ELSE Filter(Tail(s), keep)

\* Map.prototype.delete(key) on a table keyed by the record's id
MapDelete(table, id) == Filter(table, {r \in Range(table) : r.id # id})

\* Map.prototype.has(key)
MapHas(table, id) == \E i \in DOMAIN table : table[i].id = id

\* Map.prototype.get(key), for a key that is present
MapGet(table, id) == table[CHOOSE i \in DOMAIN table : table[i].id = id]

\* Map.prototype.set(key, value): an existing key keeps its position
MapSet(table, rec) ==
    IF MapHas(table, rec.id)
    THEN [i \in DOMAIN table |-> IF table[i].id = rec.id THEN rec ELSE table[i]]
    ELSE Append(table, rec)

\* ------------------------------------------------------------ input sets
\* A request body is a record of the fields it carries: a field left out of
\* the body is absent from the record's domain.
BadBody == [bad |-> TRUE]       \* a body the zod schema rejects

IssuedBlocks == 1..(nextBlock - 1)
IssuedLinks == 1..(nextLink - 1)
IssuedComments == 1..(nextComment - 1)

\* ------------------------------------------------------------ validation
\* insertBlockSchema.parse: title is required (authorId and authorName are
\* left out of the model, they are copied and never read).
insertBlockSchema(body) == "title" \in DOMAIN body /\ "bad" \notin DOMAIN body

\* insertBlockSchema.partial().parse: every field optional
insertBlockSchemaPartial(body) == "bad" \notin DOMAIN body

\* schema.parse in passthrough mode: undeclared keys are kept
KeepUnknown(body, keys) == body

\* the keys of insertBlockSchema that the model keeps: the table's columns
\* without id, createdAt and updatedAt (.omit)
insertBlockKeys == {"title", "content", "tags"}

\* what schema.parse returns: a zod object schema drops the keys it does not
\* declare
StripUnknown(body, keys) == [f \in DOMAIN body \cap keys |-> body[f]]

\* -------------------------------------------------------------- storage
Field(body, f, default) == IF f \in DOMAIN body THEN body[f] ELSE default

\* the Block createBlock builds
NewBlock(insertBlock) ==
    [ id |-> nextBlock,
      title |-> insertBlock.title,
      content |-> Field(insertBlock, "content", <<>>),
      tags |-> Field(insertBlock, "tags", <<>>),
      createdAt |-> now,
      updatedAt |-> now ]

createBlock(insertBlock) ==
    /\ blocks' = MapSet(blocks, NewBlock(insertBlock))
    /\ nextBlock' = nextBlock + 1
    /\ UNCHANGED <<links, comments, nextLink, nextComment>>

\* updateBlock building its Block from the updates alone: a field the
\* updates do not name falls back to the default createBlock gives it
UpdatedBlockReset(existingBlock, updates) ==
    [ f \in DOMAIN existingBlock |->
        IF f = "updatedAt" THEN now
        ELSE IF f \in DOMAIN updates THEN updates[f]
        ELSE IF f \in {"content", "tags"} THEN <<>>
        ELSE existingBlock[f] ]

\* the Block updateBlock builds: { ...existingBlock, ...updates, updatedAt }
UpdatedBlock(existingBlock, updates) ==
    [ f \in DOMAIN existingBlock |->
        IF f = "updatedAt" THEN now
        ELSE IF f \in DOMAIN updates THEN updates[f]
        ELSE existingBlock[f] ]

updateBlock(id, updates) ==
    /\ blocks' = IF MapHas(blocks, id)
                 THEN MapSet(blocks, UpdatedBlock(MapGet(blocks, id), updates))
                 ELSE blocks
    /\ UNCHANGED <<links, comments, nextBlock, nextLink, nextComment>>

\* deleteBlock clearing the comment table instead of filtering it
deleteBlockClearsComments(id) ==
    /\ blocks' = MapDelete(blocks, id)
    /\ IF MapHas(blocks, id)
       THEN /\ links' = Filter(links, {l \in Range(links) :
                                ~(l.fromBlockId = id \/ l.toBlockId = id)})
            /\ comments' = <<>>
       ELSE UNCHANGED <<links, comments>>
    /\ UNCHANGED <<nextBlock, nextLink, nextComment>>

\* deleteBlock without the `if (deleted)` around its cascade
deleteBlockCascadesAlways(id) ==
    /\ blocks' = MapDelete(blocks, id)
    /\ links' = Filter(links, {l \in Range(links) :
                        ~(l.fromBlockId = id \/ l.toBlockId = id)})
    /\ comments' = Filter(comments, {c \in Range(comments) : c.blockId # id})
    /\ UNCHANGED <<nextBlock, nextLink, nextComment>>

\* deleteBlock with the filter of linksToDelete reading fromBlockId only
deleteBlockOutgoingOnly(id) ==
    /\ blocks' = MapDelete(blocks, id)
    /\ IF MapHas(blocks, id)
       THEN /\ links' = Filter(links, {l \in Range(links) : l.fromBlockId # id})
            /\ comments' = Filter(comments, {c \in Range(comments) :
                                c.blockId # id})
       ELSE UNCHANGED <<links, comments>>
    /\ UNCHANGED <<nextBlock, nextLink, nextComment>>

deleteBlock(id) ==
    /\ blocks' = MapDelete(blocks, id)
    /\ IF MapHas(blocks, id)
       THEN /\ links' = Filter(links, {l \in Range(links) :
                                ~(l.fromBlockId = id \/ l.toBlockId = id)})
            /\ comments' = Filter(comments, {c \in Range(comments) :
                                c.blockId # id})
       ELSE UNCHANGED <<links, comments>>
    /\ UNCHANGED <<nextBlock, nextLink, nextComment>>

\* toLowerCase, one character at a time
LowerChar(ch) == IF ch = "A" THEN "a" ELSE IF ch = "B" THEN "b" ELSE ch
toLowerCase(str) == [i \in DOMAIN str |-> LowerChar(str[i])]

\* String.prototype.includes
includes(str, q) ==
    \E i \in 1..(Len(str) + 1) :
        /\ i + Len(q) - 1 <= Len(str)
        /\ SubSeq(str, i, i + Len(q) - 1) = q

\* searchBlocks without the test of the tags
searchBlocksNoTags(query) ==
    LET lowercaseQuery == toLowerCase(query)
        hit(block) ==
            \/ includes(toLowerCase(block.title), lowercaseQuery)
            \/ includes(toLowerCase(block.content), lowercaseQuery)
    IN  Filter(blocks, {b \in Range(blocks) : hit(b)})

searchBlocks(query) ==
    LET lowercaseQuery == toLowerCase(query)
        hit(block) ==
            \/ includes(toLowerCase(block.title), lowercaseQuery)
            \/ includes(toLowerCase(block.content), lowercaseQuery)
            \/ \E t \in DOMAIN block.tags :
                   includes(toLowerCase(block.tags[t]), lowercaseQuery)
    IN  Filter(blocks, {b \in Range(blocks) : hit(b)})

\* Array.prototype.sort((a, b) => key(a) - key(b)), which is stable: the
\* element at i goes behind those with a smaller key and behind those with
\* an equal key that stood before it.  key[i] is the key of s[i].
StableSort(s, key) ==
    LET rank(i) == 1 + Cardinality({j \in DOMAIN s :
                        key[j] < key[i] \/ (key[j] = key[i] /\ j < i)})
    IN  [p \in DOMAIN s |-> s[CHOOSE i \in DOMAIN s : rank(i) = p]]

\* getBlocks on the tables t: most recently updated first
getBlocksIn(t) ==
    StableSort(t.blocks, [i \in DOMAIN t.blocks |-> 0 - t.blocks[i].updatedAt])

getBlocks == getBlocksIn(Tables)

getLinks == links

getLinksForBlock(blockId) ==
    Filter(links, {l \in Range(links) :
                      l.fromBlockId = blockId \/ l.toBlockId = blockId})

\* the Link createLink builds
NewLink(insertLink) ==
    [ id |-> nextLink,
      fromBlockId |-> insertLink.fromBlockId,
      toBlockId |-> insertLink.toBlockId,
      createdAt |-> now ]

createLink(insertLink) ==
    /\ links' = MapSet(links, NewLink(insertLink))
    /\ nextLink' = nextLink + 1
    /\ UNCHANGED <<blocks, comments, nextBlock, nextComment>>

deleteLink(id) ==
    /\ links' = MapDelete(links, id)
    /\ UNCHANGED <<blocks, comments, nextBlock, nextLink, nextComment>>

\* getLinksBetween without the second disjunct of its filter
getLinksBetweenDirected(fromBlockId, toBlockId) ==
    Filter(links, {l \in Range(links) :
        l.fromBlockId = fromBlockId /\ l.toBlockId = toBlockId})

getLinksBetween(fromBlockId, toBlockId) ==
    Filter(links, {l \in Range(links) :
        \/ (l.fromBlockId = fromBlockId /\ l.toBlockId = toBlockId)
        \/ (l.fromBlockId = toBlockId /\ l.toBlockId = fromBlockId)})

\* getBlockWithLinks on the tables t, for a block that is present
getBlockWithLinksIn(t, id) ==
    LET outgoingLinks ==
            Filter(t.links, {l \in Range(t.links) : l.fromBlockId = id})
        incomingLinks ==
            Filter(t.links, {l \in Range(t.links) : l.toBlockId = id})
        resolve(ids) == \* .map(link => this.blocks.get(..)).filter(Boolean)
            LET kept == Filter(ids, {x \in Range(ids) : MapHas(t.blocks, x)})
            IN  [i \in DOMAIN kept |-> MapGet(t.blocks, kept[i])]
        linkedTo ==
            resolve([i \in DOMAIN outgoingLinks |-> outgoingLinks[i].toBlockId])
        linkedFrom ==
            resolve([i \in DOMAIN incomingLinks |-> incomingLinks[i].fromBlockId])
        cs == Filter(t.comments, {c \in Range(t.comments) : c.blockId = id})
    IN  [ block |-> MapGet(t.blocks, id),
          linkedTo |-> linkedTo,
          linkedFrom |-> linkedFrom,
          comments |-> cs,
          linkCount |-> Len(linkedTo) + Len(linkedFrom),
          commentCount |-> Len(cs) ]

getBlockWithLinks(id) == getBlockWithLinksIn(Tables, id)

\* the Comment createComment builds
NewComment(insertComment) ==
    [ id |-> nextComment,
      blockId |-> insertComment.blockId,
      parentId |-> Field(insertComment, "parentId", Null),
      createdAt |-> now ]

createComment(insertComment) ==
    /\ comments' = MapSet(comments, NewComment(insertComment))
    /\ nextComment' = nextComment + 1
    /\ UNCHANGED <<blocks, links, nextBlock, nextLink>>

deleteComment(id) ==
    /\ comments' = MapDelete(comments, id)
    /\ UNCHANGED <<blocks, links, nextBlock, nextLink, nextComment>>

\* blockComments of getCommentsForBlock: the block's comments, oldest first
blockCommentsOf(table, blockId) ==
    LET own == Filter(table, {c \in Range(table) : c.blockId = blockId})
    IN  StableSort(own, [i \in DOMAIN own |-> own[i].createdAt])

\* parent.replies with unshift in the place of push: newest reply first
RepliesOfNewestFirst(blockComments, parentId) ==
    LET rs == Filter(blockComments, {c \in Range(blockComments) :
                  /\ c.parentId # Null
                  /\ c.parentId = parentId
                  /\ MapHas(blockComments, c.parentId)})
    IN  [i \in DOMAIN rs |-> rs[Len(rs) + 1 - i]]

\* parent.replies after the second forEach: the comments pushed to the
\* entry of parentId in commentMap, in the order of blockComments
RepliesOf(blockComments, parentId) ==
    Filter(blockComments, {c \in Range(blockComments) :
        /\ c.parentId # Null
        /\ c.parentId = parentId
        /\ MapHas(blockComments, c.parentId)})

\* rootComments after the second forEach
RootsOf(blockComments) ==
    Filter(blockComments, {c \in Range(blockComments) : c.parentId = Null})

RECURSIVE WithReplies(_, _)
\* the CommentWithReplies of comment, its replies nested in it
WithReplies(blockComments, comment) ==
    LET rs == RepliesOf(blockComments, comment.id)
    IN  [ id |-> comment.id,
          blockId |-> comment.blockId,
          parentId |-> comment.parentId,
          createdAt |-> comment.createdAt,
          replies |-> [i \in DOMAIN rs |-> WithReplies(blockComments, rs[i])] ]

getCommentsForBlockIn(table, blockId) ==
    LET blockComments == blockCommentsOf(table, blockId)
        rootComments == RootsOf(blockComments)
    IN  [i \in DOMAIN rootComments |-> WithReplies(blockComments, rootComments[i])]

getCommentsForBlock(blockId) == getCommentsForBlockIn(comments, blockId)

getGraphDataIn(t) == [nodes |-> t.blocks, edges |-> t.links]

getGraphData == getGraphDataIn(Tables)

\* insertLinkSchema.parse: both endpoints are required strings
insertLinkSchema(body) ==
    /\ "fromBlockId" \in DOMAIN body
    /\ "toBlockId" \in DOMAIN body
    /\ "bad" \notin DOMAIN body

\* insertCommentSchema.parse({ ...req.body, blockId }): content is required,
\* parentId is optional
insertCommentSchema(body) ==
    /\ "content" \in DOMAIN body
    /\ "blockId" \in DOMAIN body
    /\ "bad" \notin DOMAIN body

\* ------------------------------------------------------------- fan-out
NoDelivery == [c \in Conns |-> <<>>]

\* JSON.stringify(message): the text sent, the same for every connection
JSONstringify(message) == [json |-> message]

\* The sends a broadcast may see throw: none (0), or the send to the k-th
\* connection of the registry, which the loop reaches only if it is OPEN.
SendFailures ==
    {0} \cup {k \in DOMAIN clients : readyState[clients[k]] = "OPEN"}

\* broadcastToClients without the readyState test
broadcastToAll(message, failAt) ==
    LET messageStr == JSONstringify(message)
    IN  [c \in Conns |->
            IF \E k \in DOMAIN clients :
                   clients[k] = c /\ (failAt = 0 \/ k < failAt)
            THEN <<messageStr>>
            ELSE <<>>]

\* broadcastToClients with JSON.stringify inside the loop, of a message that
\* names its recipient
broadcastPerClient(message, failAt) ==
    [c \in Conns |->
        IF \E k \in DOMAIN clients :
               /\ clients[k] = c
               /\ readyState[c] = "OPEN"
               /\ (failAt = 0 \/ k < failAt)
        THEN <<JSONstringify([type |-> message.type, data |-> message.data,
                              to |-> c])>>
        ELSE <<>>]

\* broadcastToClients with a loop that stops after its first send
broadcastToFirstOpen(message, failAt) ==
    LET messageStr == JSONstringify(message)
        open == {k \in DOMAIN clients : readyState[clients[k]] = "OPEN"}
    IN  [c \in Conns |->
            IF \E k \in open :
                   /\ clients[k] = c
                   /\ \A j \in open : k <= j
                   /\ (failAt = 0 \/ k < failAt)
            THEN <<messageStr>>
            ELSE <<>>]

\* broadcastToClients(message): what each connection is sent.  clients is
\* walked in insertion order; a send that throws ends the walk (forEach has
\* no try/catch), and the connection whose send threw gets nothing.
broadcastToClients(message, failAt) ==
    LET messageStr == JSONstringify(message)
        reached(k) == failAt = 0 \/ k < failAt
    IN  [c \in Conns |->
            IF \E k \in DOMAIN clients :
                   /\ clients[k] = c
                   /\ readyState[c] = "OPEN"
                   /\ reached(k)
            THEN <<messageStr>>
            ELSE <<>>]

\* ------------------------------------------------------------- handlers
Request(op, id, body) == [op |-> op, id |-> id, body |-> body]
NoBody == [none |-> TRUE]

\* res.status(status).json(body); path names the statement that answered
Response(status, path, body) == [status |-> status, path |-> path, body |-> body]

NoRequest == Request("none", Null, NoBody)
NoResponse == Response(0, "none", NoBody)

\* no request is being answered
Idle == req = NoRequest

\* a request reaches its handler
Receive(op, id, body) ==
    /\ Idle
    /\ req' = Request(op, id, body)
    /\ before' = Tables
    /\ UNCHANGED aside

\* a handler that returns before it reaches the store or the fan-out
Answer(status, path, body) ==
    /\ res' = Response(status, path, body)
    /\ delivered' = NoDelivery
    /\ UNCHANGED store

\* res.json(body) first and the broadcast after it: the response is out
\* before a send can throw
AnswerThenBroadcast(message, failAt, body, catchStatus, catchMessage) ==
    /\ failAt \in SendFailures
    /\ delivered' = broadcastToClients(message, failAt)
    /\ res' = Response(200, "ok", body)

\* a handler that has called the store: broadcast, then res.json(body);
\* an exception from the broadcast lands in the handler's catch
BroadcastThenAnswer(message, failAt, body, catchStatus, catchMessage) ==
    /\ failAt \in SendFailures
    /\ delivered' = broadcastToClients(message, failAt)
    /\ res' = IF failAt = 0
              THEN Response(200, "ok", body)
              ELSE Response(catchStatus, "catch", catchMessage)

\* GET /api/blocks
GetBlocks ==
    /\ Receive("GET /api/blocks", Null, NoBody)
    /\ Answer(200, "ok", getBlocks)
    /\ UNCHANGED <<now, sockets>>

\* GET /api/blocks/:id
GetBlock(id) ==
    /\ Receive("GET /api/blocks/:id", id, NoBody)
    /\ IF ~MapHas(blocks, id)
       THEN Answer(404, "notfound", "Block not found")
       ELSE Answer(200, "ok", getBlockWithLinks(id))
    /\ UNCHANGED <<now, sockets>>

\* POST /api/blocks
PostBlocks(body, failAt) ==
    /\ Receive("POST /api/blocks", Null, body)
    /\ IF ~insertBlockSchema(body)
       THEN failAt = 0 /\ Answer(400, "invalid", "Invalid block data")
       ELSE /\ createBlock(body)
            /\ BroadcastThenAnswer([type |-> "block_created", data |-> NewBlock(body)],
                                   failAt, NewBlock(body), 400, "Invalid block data")
    /\ UNCHANGED <<now, sockets>>

\* PUT /api/blocks/:id broadcasting the block as it was before the update
PutBlockSendsOld(id, body, failAt) ==
    LET updates == StripUnknown(body, insertBlockKeys)
    IN
    /\ Receive("PUT /api/blocks/:id", id, body)
    /\ IF ~insertBlockSchemaPartial(body)
       THEN failAt = 0 /\ Answer(400, "invalid", "Invalid update data")
       ELSE IF ~MapHas(blocks, id)
       THEN /\ failAt = 0
            /\ res' = Response(404, "notfound", "Block not found")
            /\ delivered' = NoDelivery
            /\ updateBlock(id, updates)
       ELSE /\ updateBlock(id, updates)
            /\ BroadcastThenAnswer(
                   [type |-> "block_updated", data |-> MapGet(blocks, id)],
                   failAt, UpdatedBlock(MapGet(blocks, id), updates),
                   400, "Invalid update data")
    /\ UNCHANGED <<now, sockets>>

\* PUT /api/blocks/:id
PutBlock(id, body, failAt) ==
    LET updates == StripUnknown(body, insertBlockKeys)
    IN
    /\ Receive("PUT /api/blocks/:id", id, body)
    /\ IF ~insertBlockSchemaPartial(body)
       THEN failAt = 0 /\ Answer(400, "invalid", "Invalid update data")
       ELSE IF ~MapHas(blocks, id)
       THEN /\ failAt = 0
            /\ res' = Response(404, "notfound", "Block not found")
            /\ delivered' = NoDelivery
            /\ updateBlock(id, updates)
       ELSE /\ updateBlock(id, updates)
            /\ BroadcastThenAnswer(
                   [type |-> "block_updated",
                    data |-> UpdatedBlock(MapGet(blocks, id), updates)],
                   failAt, UpdatedBlock(MapGet(blocks, id), updates),
                   400, "Invalid update data")
    /\ UNCHANGED <<now, sockets>>

\* DELETE /api/blocks/:id
DeleteBlock(id, failAt) ==
    /\ Receive("DELETE /api/blocks/:id", id, NoBody)
    /\ deleteBlock(id)
    /\ IF ~MapHas(blocks, id)
       THEN /\ failAt = 0
            /\ res' = Response(404, "notfound", "Block not found")
            /\ delivered' = NoDelivery
       ELSE BroadcastThenAnswer([type |-> "block_deleted", data |-> [id |-> id]],
                                failAt, [success |-> TRUE],
                                500, "Failed to delete block")
    /\ UNCHANGED <<now, sockets>>

\* GET /api/search
Search(query) ==
    /\ Receive("GET /api/search", Null, [q |-> query])
    /\ IF query = <<>>
       THEN Answer(400, "invalid", "Query parameter required")
       ELSE Answer(200, "ok", searchBlocks(query))
    /\ UNCHANGED <<now, sockets>>

\* GET /api/links
GetLinks ==
    /\ Receive("GET /api/links", Null, NoBody)
    /\ Answer(200, "ok", getLinks)
    /\ UNCHANGED <<now, sockets>>

\* POST /api/links
PostLinks(body, failAt) ==
    /\ Receive("POST /api/links", Null, body)
    /\ IF ~insertLinkSchema(body)
       THEN failAt = 0 /\ Answer(400, "invalid", "Invalid link data")
       ELSE IF Len(getLinksBetween(body.fromBlockId, body.toBlockId)) > 0
       THEN failAt = 0 /\ Answer(400, "conflict", "Link already exists")
       ELSE /\ createLink(body)
            /\ BroadcastThenAnswer([type |-> "link_created", data |-> NewLink(body)],
                                   failAt, NewLink(body), 400, "Invalid link data")
    /\ UNCHANGED <<now, sockets>>

\* DELETE /api/links/:id with the broadcast moved above the `if (!deleted)`
DeleteLinkBroadcastsFirst(id, failAt) ==
    /\ Receive("DELETE /api/links/:id", id, NoBody)
    /\ deleteLink(id)
    /\ failAt \in SendFailures
    /\ delivered' = broadcastToClients(
                        [type |-> "link_deleted", data |-> [id |-> id]], failAt)
    /\ res' = IF failAt # 0 THEN Response(500, "catch", "Failed to delete link")
              ELSE IF ~MapHas(links, id)
              THEN Response(404, "notfound", "Link not found")
              ELSE Response(200, "ok", [success |-> TRUE])
    /\ UNCHANGED <<now, sockets>>

\* DELETE /api/links/:id
DeleteLink(id, failAt) ==
    /\ Receive("DELETE /api/links/:id", id, NoBody)
    /\ deleteLink(id)
    /\ IF ~MapHas(links, id)
       THEN /\ failAt = 0
            /\ res' = Response(404, "notfound", "Link not found")
            /\ delivered' = NoDelivery
       ELSE BroadcastThenAnswer([type |-> "link_deleted", data |-> [id |-> id]],
                                failAt, [success |-> TRUE],
                                500, "Failed to delete link")
    /\ UNCHANGED <<now, sockets>>

\* GET /api/blocks/:blockId/comments that also drops the comments it finds
\* on a block that is gone
GetCommentsPrunes(blockId) ==
    /\ Receive("GET /api/blocks/:blockId/comments", blockId, NoBody)
    /\ res' = Response(200, "ok", getCommentsForBlock(blockId))
    /\ delivered' = NoDelivery
    /\ comments' = IF MapHas(blocks, blockId) THEN comments
                   ELSE Filter(comments, {c \in Range(comments) :
                                             c.blockId # blockId})
    /\ UNCHANGED <<blocks, links, nextBlock, nextLink, nextComment>>
    /\ UNCHANGED <<now, sockets>>

\* GET /api/blocks/:blockId/comments
GetComments(blockId) ==
    /\ Receive("GET /api/blocks/:blockId/comments", blockId, NoBody)
    /\ Answer(200, "ok", getCommentsForBlock(blockId))
    /\ UNCHANGED <<now, sockets>>

\* POST /api/blocks/:blockId/comments
PostComments(blockId, body, failAt) ==
    LET merged == IF "bad" \in DOMAIN body THEN body
                  ELSE [f \in DOMAIN body \cup {"blockId"} |->
                           IF f = "blockId" THEN blockId ELSE body[f]]
    IN
    /\ Receive("POST /api/blocks/:blockId/comments", blockId, body)
    /\ IF ~insertCommentSchema(merged)
       THEN failAt = 0 /\ Answer(400, "invalid", "Invalid comment data")
       ELSE /\ createComment(merged)
            /\ BroadcastThenAnswer(
                   [type |-> "comment_created", data |-> NewComment(merged)],
                   failAt, NewComment(merged), 400, "Invalid comment data")
    /\ UNCHANGED <<now, sockets>>

\* DELETE /api/comments/:id
DeleteComment(id, failAt) ==
    /\ Receive("DELETE /api/comments/:id", id, NoBody)
    /\ deleteComment(id)
    /\ IF ~MapHas(comments, id)
       THEN /\ failAt = 0
            /\ res' = Response(404, "notfound", "Comment not found")
            /\ delivered' = NoDelivery
       ELSE BroadcastThenAnswer([type |-> "comment_deleted", data |-> [id |-> id]],
                                failAt, [success |-> TRUE],
                                500, "Failed to delete comment")
    /\ UNCHANGED <<now, sockets>>

\* GET /api/graph
GetGraph ==
    /\ Receive("GET /api/graph", Null, NoBody)
    /\ Answer(200, "ok", getGraphData)
    /\ UNCHANGED <<now, sockets>>

\* ----------------------------------------------------------- connections
\* Set.prototype.delete
SetDelete(set, c) == Filter(set, Range(set) \ {c})

\* wss.on('connection'): a new socket, OPEN, is added to the registry
WsConnection(c) ==
    /\ Idle
    /\ readyState[c] = "NONE"
    /\ clients' = Append(clients, c)
    /\ readyState' = [readyState EXCEPT ![c] = "OPEN"]
    /\ live' = live \cup {c}
    /\ UNCHANGED <<store, now, req, res, delivered, before, aside>>

\* the closing handshake starts: the socket stops being OPEN before its
\* 'close' event is emitted, and is still in the registry meanwhile
WsClosing(c) ==
    /\ Idle
    /\ readyState[c] = "OPEN"
    /\ readyState' = [readyState EXCEPT ![c] = "CLOSING"]
    /\ UNCHANGED <<store, now, clients, live, req, res, delivered, before,
                   aside>>

\* ws.on('close')
WsClose(c) ==
    /\ Idle
    /\ readyState[c] \in {"OPEN", "CLOSING"}
    /\ clients' = SetDelete(clients, c)
    /\ readyState' = [readyState EXCEPT ![c] = "NONE"]
    /\ live' = live \ {c}
    /\ UNCHANGED <<store, now, req, res, delivered, before, aside>>

\* ws.on('error') without its clients.delete(ws)
WsErrorKeeps(c) ==
    /\ Idle
    /\ readyState[c] \in {"OPEN", "CLOSING"}
    /\ c \in Range(clients)
    /\ readyState' = [readyState EXCEPT ![c] = "CLOSING"]
    /\ live' = live \ {c}
    /\ UNCHANGED <<store, now, clients, req, res, delivered, before, aside>>

\* ws.on('error'): the socket is on its way to 'close'
WsError(c) ==
    /\ Idle
    /\ readyState[c] \in {"OPEN", "CLOSING"}
    /\ c \in Range(clients)
    /\ clients' = SetDelete(clients, c)
    /\ readyState' = [readyState EXCEPT ![c] = "CLOSING"]
    /\ live' = live \ {c}
    /\ UNCHANGED <<store, now, req, res, delivered, before, aside>>

\* time passes
Tick ==
    /\ Idle
    /\ now < MaxTime
    /\ now' = now + 1
    /\ UNCHANGED <<store, sockets, req, res, delivered, before, aside>>

\* ------------------------------------------------------------ requests
BlockIdsAsked == IssuedBlocks \cup {NoSuchId}
LinkBodiesOver(ids) ==
    {[fromBlockId |-> f, toBlockId |-> t] : f \in ids, t \in ids}
LinkBodies == {BadBody} \cup LinkBodiesOver(BlockIdsAsked)
CommentBodies ==
    {BadBody, [content |-> <<"c">>]} \cup
    {[content |-> <<"c">>, parentId |-> p] : p \in IssuedComments}
\* nothing was applied and nothing was sent
NoLog == [applied |-> <<>>, received |-> [c \in Conns |-> <<>>]]

\* ThreadView is not rendered yet
NotMounted ==
    [mounted |-> FALSE, blocks |-> <<>>, messages |-> <<>>, nanoids |-> 0]

Init ==
    /\ blocks = <<>>
    /\ links = <<>>
    /\ comments = <<>>
    /\ nextBlock = 1
    /\ nextLink = 1
    /\ nextComment = 1
    /\ now = 0
    /\ clients = <<>>
    /\ readyState = [c \in Conns |-> "NONE"]
    /\ req = NoRequest
    /\ res = NoResponse
    /\ delivered = NoDelivery
    /\ before = NoTables
    /\ live = {}
    /\ suspended = <<>>
    /\ log = NoLog
    /\ fresh = {}
    /\ view = NotMounted

\* The response has been written and the handler has returned: req and res
\* are dropped, and so is the record of what this request made the server send.
RequestDone ==
    /\ ~Idle
    /\ req' = NoRequest
    /\ res' = NoResponse
    /\ delivered' = NoDelivery
    /\ before' = NoTables
    /\ UNCHANGED <<store, now, sockets, aside>>

\* the store has issued at most nb block, nl link and nc comment identifiers
Issued(nb, nl, nc) ==
    /\ nextBlock <= nb + 1
    /\ nextLink <= nl + 1
    /\ nextComment <= nc + 1

\* ---------------------------------------------------------------- Spec
\* The whole server: every route and every connection event.  The fan-out
\* does not read the store, so here each table gets one record at most and
\* the bound is on the connections.
NewBlockBodies == {[title |-> <<"a">>], BadBody}
BlockUpdates == {[title |-> <<"b">>], BadBody}
Queries == {<<>>, <<"a">>}
OneOfEach == Issued(1, 1, 1)

Next ==
    \/ GetBlocks
    \/ \E id \in BlockIdsAsked : GetBlock(id)
    \/ \E body \in NewBlockBodies, failAt \in SendFailures :
           PostBlocks(body, failAt) /\ OneOfEach'
    \/ \E id \in BlockIdsAsked, body \in BlockUpdates, failAt \in SendFailures :
           PutBlock(id, body, failAt)
    \/ \E id \in BlockIdsAsked, failAt \in SendFailures : DeleteBlock(id, failAt)
    \/ \E query \in Queries : Search(query)
    \/ GetLinks
    \/ \E body \in LinkBodies, failAt \in SendFailures :
           PostLinks(body, failAt) /\ OneOfEach'
    \/ \E id \in IssuedLinks \cup {NoSuchId}, failAt \in SendFailures :
           DeleteLink(id, failAt)
    \/ \E blockId \in BlockIdsAsked : GetComments(blockId)
    \/ \E blockId \in BlockIdsAsked, body \in CommentBodies, failAt \in SendFailures :
           PostComments(blockId, body, failAt) /\ OneOfEach'
    \/ \E id \in IssuedComments \cup {NoSuchId}, failAt \in SendFailures :
           DeleteComment(id, failAt)
    \/ GetGraph
    \/ \E c \in Conns : WsConnection(c)
    \/ \E c \in Conns : WsClosing(c)
    \/ \E c \in Conns : WsClose(c)
    \/ \E c \in Conns : WsError(c)
    \/ RequestDone

Spec == Init /\ [][Next]_vars

\* ----------------------------------------------------------- SpecLinks
\* Blocks and links, with no WebSocket client connected.
NextLinks ==
    \/ \E body \in NewBlockBodies :
           PostBlocks(body, 0) /\ Issued(MaxBlocks, MaxLinks, 0)'
    \/ \E id \in BlockIdsAsked : DeleteBlock(id, 0)
    \/ GetLinks
    \/ \E body \in LinkBodies :
           PostLinks(body, 0) /\ Issued(MaxBlocks, MaxLinks, 0)'
    \/ \E id \in IssuedLinks \cup {NoSuchId} : DeleteLink(id, 0)
    \/ RequestDone

SpecLinks == Init /\ [][NextLinks]_vars

\* ----------------------------------------------------------- SpecStore
\* Blocks, links and comments, created, updated and deleted, with no
\* WebSocket client connected.  Requests name identifiers the store has
\* issued: those of deleted blocks are the absent ones.
NextStore ==
    \/ \E body \in NewBlockBodies \ {BadBody} :
           PostBlocks(body, 0) /\ Issued(StoreBlocks, StoreLinks, StoreComments)'
    \/ \E id \in IssuedBlocks, body \in BlockUpdates \ {BadBody} :
           PutBlock(id, body, 0)
    \/ \E id \in BlockIdsAsked : DeleteBlock(id, 0)
    \/ \E body \in LinkBodiesOver(IssuedBlocks) :
           PostLinks(body, 0) /\ Issued(StoreBlocks, StoreLinks, StoreComments)'
    \/ \E id \in IssuedLinks : DeleteLink(id, 0)
    \/ \E blockId \in IssuedBlocks, body \in CommentBodies \ {BadBody} :
           PostComments(blockId, body, 0)
           /\ Issued(StoreBlocks, StoreLinks, StoreComments)'
    \/ \E id \in IssuedComments : DeleteComment(id, 0)
    \/ RequestDone

SpecStore == Init /\ [][NextStore]_vars

\* ---------------------------------------------------------- SpecThread
\* Comments posted, deleted and read back as threads, while time passes.
\* one block, and the identifier of no block, carry the comments
ThreadCap == Issued(1, 0, MaxComments)

NextThread ==
    \/ \E body \in NewBlockBodies :
           PostBlocks(body, 0) /\ ThreadCap'
    \/ \E blockId \in BlockIdsAsked : GetBlock(blockId)
    \/ \E blockId \in BlockIdsAsked : GetComments(blockId)
    \/ \E blockId \in BlockIdsAsked, body \in CommentBodies :
           PostComments(blockId, body, 0) /\ ThreadCap'
    \/ \E id \in IssuedComments \cup {NoSuchId} : DeleteComment(id, 0)
    \/ Tick
    \/ RequestDone

SpecThread == Init /\ [][NextThread]_vars

\* ------------------------------------------------------------ SpecEdit
\* Blocks created and edited while time passes, next to one link and one
\* comment, both on the block created last.  A PUT body may carry keys the
\* schema does not declare.
EditBodies ==
    { [title |-> <<"b">>],
      [content |-> <<"c">>],
      [title |-> <<"b">>, id |-> NoSuchId, createdAt |-> MaxTime + 1] }
EditCap == Issued(EditBlocks, 1, 1)

NextEdit ==
    \/ \E body \in NewBlockBodies \ {BadBody} : PostBlocks(body, 0) /\ EditCap'
    \/ \E id \in BlockIdsAsked, body \in EditBodies : PutBlock(id, body, 0)
    \/ \E body \in LinkBodiesOver({nextBlock - 1}) :
           PostLinks(body, 0) /\ EditCap'
    \/ PostComments(nextBlock - 1, [content |-> <<"c">>], 0) /\ EditCap'
    \/ Tick
    \/ RequestDone

SpecEdit == Init /\ [][NextEdit]_vars

\* ------------------------------------------------------------ SpecRace
\* POST /api/links with its first await made visible.  The handler calls
\* getLinksBetween, which reads the table at once, and is suspended by the
\* await; the handlers that another request started meanwhile run up to
\* their own await before it is resumed.  Suspended handlers are resumed in
\* the order they were suspended (the microtask queue is first in, first
\* out).  The second await, of createLink, comes after the insert and is
\* left in the resuming step.

\* POST /api/links up to `await storage.getLinksBetween(..)`
PostLinksBegin(body) ==
    /\ Idle
    /\ insertLinkSchema(body)
    /\ Len(suspended) < RaceRequests
    /\ suspended' = Append(suspended,
           [ validatedLink |-> body,
             existingLinks |-> getLinksBetween(body.fromBlockId, body.toBlockId) ])
    /\ UNCHANGED <<store, now, sockets, req, res, delivered, before, log, browser>>

\* POST /api/links from that await to its response
PostLinksResume ==
    /\ Idle
    /\ suspended # <<>>
    /\ suspended' = Tail(suspended)
    /\ LET validatedLink == Head(suspended).validatedLink
           existingLinks == Head(suspended).existingLinks
       IN  /\ req' = Request("POST /api/links", Null, validatedLink)
           /\ before' = Tables
           /\ IF Len(existingLinks) > 0
              THEN Answer(400, "conflict", "Link already exists")
              ELSE /\ createLink(validatedLink)
                   /\ BroadcastThenAnswer(
                          [type |-> "link_created", data |-> NewLink(validatedLink)],
                          0, NewLink(validatedLink), 400, "Invalid link data")
    /\ UNCHANGED <<now, sockets, log, browser>>

RaceCap == Issued(RaceBlocks, RaceLinks, 0)

NextRace ==
    \/ \E body \in NewBlockBodies \ {BadBody} : PostBlocks(body, 0) /\ RaceCap'
    \/ \E body \in LinkBodiesOver(IssuedBlocks) : PostLinksBegin(body)
    \/ PostLinksResume /\ RaceCap'
    \/ \E id \in IssuedLinks : DeleteLink(id, 0)
    \/ RequestDone

SpecRace == Init /\ [][NextRace]_vars

\* ----------------------------------------------------------- SpecOrder
\* The block mutation routes with their await made visible.  A handler
\* calls the store, which applies the mutation at once, and is suspended by
\* the await of the promise the store method returns; handlers that other
\* requests started meanwhile run up to their own await before it is
\* resumed, first suspended first resumed.  Then it broadcasts and answers.
\* One connection listens.

\* a handler suspended at `await storage.<method>(..)`: found tells whether
\* the store call returned a record (or true)
Suspend(op, id, body, found, message, answer, catchStatus, catchMessage) ==
    /\ Idle
    /\ Len(suspended) < OrderRequests
    /\ suspended' = Append(suspended,
           [ op |-> op, id |-> id, body |-> body, found |-> found,
             message |-> message, answer |-> answer,
             catchStatus |-> catchStatus, catchMessage |-> catchMessage ])
    /\ log' = IF found
              THEN [log EXCEPT !.applied = Append(@, JSONstringify(message))]
              ELSE log
    /\ UNCHANGED <<now, sockets, req, res, delivered, before, browser>>

\* POST /api/blocks up to its await
PostBlocksCall(body) ==
    /\ insertBlockSchema(body)
    /\ createBlock(body)
    /\ Suspend("POST /api/blocks", Null, body, TRUE,
               [type |-> "block_created", data |-> NewBlock(body)],
               NewBlock(body), 400, "Invalid block data")

\* PUT /api/blocks/:id up to its await
PutBlockCall(id, body) ==
    LET updates == StripUnknown(body, insertBlockKeys)
        block == IF MapHas(blocks, id)
                 THEN UpdatedBlock(MapGet(blocks, id), updates)
                 ELSE [id |-> id]
    IN  /\ insertBlockSchemaPartial(body)
        /\ updateBlock(id, updates)
        /\ Suspend("PUT /api/blocks/:id", id, body, MapHas(blocks, id),
                   [type |-> "block_updated", data |-> block],
                   block, 400, "Invalid update data")

\* DELETE /api/blocks/:id up to its await
DeleteBlockCall(id) ==
    /\ deleteBlock(id)
    /\ Suspend("DELETE /api/blocks/:id", id, NoBody, MapHas(blocks, id),
               [type |-> "block_deleted", data |-> [id |-> id]],
               [success |-> TRUE], 500, "Failed to delete block")

\* the handler at position k of the queue goes on from its await to its
\* response
ResumeAt(k, failAt) ==
    LET h == suspended[k]
    IN  /\ Idle
        /\ suspended' = [i \in 1..(Len(suspended) - 1) |->
                            IF i < k THEN suspended[i] ELSE suspended[i + 1]]
        /\ req' = Request(h.op, h.id, h.body)
        /\ before' = Tables
        /\ IF ~h.found
           THEN /\ failAt = 0
                /\ res' = Response(404, "notfound", "Block not found")
                /\ delivered' = NoDelivery
                /\ log' = log
           ELSE /\ BroadcastThenAnswer(h.message, failAt, h.answer,
                                       h.catchStatus, h.catchMessage)
                /\ log' = [log EXCEPT !.received =
                              [c \in Conns |->
                                  @[c] \o broadcastToClients(h.message, failAt)[c]]]
        /\ UNCHANGED <<store, now, sockets, browser>>

\* the microtask queue taking the job queued last
ResumeNewest(failAt) ==
    /\ suspended # <<>>
    /\ ResumeAt(Len(suspended), failAt)

\* the microtask queue runs its jobs first in, first out
Resume(failAt) ==
    /\ suspended # <<>>
    /\ ResumeAt(1, failAt)

\* SpecOrder cannot grow past its bounds
OrderCap == Issued(OrderBlocks, 0, 0) /\ Len(log.applied) <= OrderEvents

NextOrder ==
    \/ \E body \in NewBlockBodies \ {BadBody} : PostBlocksCall(body) /\ OrderCap'
    \/ \E id \in IssuedBlocks, body \in BlockUpdates \ {BadBody} :
           PutBlockCall(id, body) /\ OrderCap'
    \/ \E id \in IssuedBlocks : DeleteBlockCall(id)
    \/ \E failAt \in SendFailures : Resume(failAt)
    \/ WsConnection(TheClient)
    \/ WsClose(TheClient)
    \/ RequestDone

SpecOrder == Init /\ [][NextOrder]_vars

\* ----------------------------------------------------------- SpecCache
\* One browser: its WebSocket (useWebSocket) and the queries its components
\* keep in the react-query cache.  fresh holds the keys of the cached
\* queries that are not marked invalid.  The components query the block
\* list, one block, the comments of a block and the graph; none of them
\* queries /api/links.
BlocksKey == <<"/api/blocks">>
BlockKey(id) == <<"/api/blocks", id>>
CommentsKey(id) == <<"/api/blocks", id, "comments">>
GraphKey == <<"/api/graph">>

QueryKeys ==
    {BlocksKey, GraphKey}
        \cup {BlockKey(id) : id \in IssuedBlocks}
        \cup {CommentsKey(id) : id \in IssuedBlocks}

\* react-query matches a query whose key starts with the key given
IsPrefix(k, key) == Len(k) <= Len(key) /\ SubSeq(key, 1, Len(k)) = k

\* queryClient.invalidateQueries({ queryKey: k })
invalidateQueries(cached, k) == {key \in cached : ~IsPrefix(k, key)}

\* invalidateQueries for each key of ks
invalidateAll(cached, ks) ==
    {key \in cached : \A k \in ks : ~IsPrefix(k, key)}

\* the keys the switch of ws.onmessage invalidates for message
Invalidated(message) ==
    CASE message.type = "block_created" -> {BlocksKey, GraphKey}
      [] message.type = "block_updated" ->
             {BlocksKey, BlockKey(message.data.id)}
      [] message.type = "block_deleted" -> {BlocksKey, GraphKey}
      [] message.type = "link_created" ->
             {BlocksKey, <<"/api/links">>, GraphKey}
      [] message.type = "link_deleted" ->
             {BlocksKey, <<"/api/links">>, GraphKey}
      [] message.type = "comment_created" ->
             {CommentsKey(message.data.blockId), BlocksKey}
      [] message.type = "comment_deleted" -> {BlocksKey}
      [] OTHER -> {}

\* JSON.parse of what JSON.stringify wrote
JSONparse(text) == text.json

\* ws.onmessage: the event the socket holds is taken and handled
onmessage(c) ==
    /\ ~Idle
    /\ delivered[c] # <<>>
    /\ LET message == JSONparse(Head(delivered[c]))
       IN  fresh' = invalidateAll(fresh, Invalidated(message))
    /\ delivered' = [delivered EXCEPT ![c] = Tail(@)]
    /\ UNCHANGED <<store, now, sockets, req, res, before, suspended, log, view>>

\* a component's query is fetched (again) and is fresh
Fetch(key) ==
    /\ Idle
    /\ key \notin fresh
    /\ fresh' = fresh \cup {key}
    /\ UNCHANGED <<store, now, sockets, req, res, delivered, before,
                   suspended, log, view>>

CacheCap == Issued(CacheBlocks, 1, 1)

NextCache ==
    \/ WsConnection(TheClient)
    \/ \E key \in QueryKeys : Fetch(key)
    \/ onmessage(TheClient)
    \/ \E body \in NewBlockBodies \ {BadBody} : PostBlocks(body, 0) /\ CacheCap'
    \/ \E id \in IssuedBlocks, body \in BlockUpdates \ {BadBody} :
           PutBlock(id, body, 0)
    \/ \E id \in IssuedBlocks : DeleteBlock(id, 0)
    \/ \E body \in LinkBodiesOver(IssuedBlocks) : PostLinks(body, 0) /\ CacheCap'
    \/ \E id \in IssuedLinks : DeleteLink(id, 0)
    \/ \E blockId \in IssuedBlocks :
           PostComments(blockId, [content |-> <<"c">>], 0) /\ CacheCap'
    \/ \E id \in IssuedComments : DeleteComment(id, 0)
    \/ RequestDone /\ delivered[TheClient] = <<>>

SpecCache == Init /\ [][NextCache]_vars

\* ------------------------------------------------------------ SpecView
\* ThreadView over the block list its parent queries from the server.
\* view.blocks is the blocks prop the effect last ran with and
\* view.messages the messages state; of a block and of a message the
\* identifier, the role and originalBlockId are kept.  nanoid() issues
\* -1, -2, ... and view.nanoids counts them.  The DELETE request that
\* deleteMessageMutation sends is a DeleteBlock step of the server.
MessageRole == {"You", "Assistant", "System"}

nanoid(n) == 0 - (n + 1)

\* the empty message
Placeholder(n) == [id |-> nanoid(n), role |-> "You", originalBlockId |-> Null]

\* the message made of a block
Converted(id) == [id |-> id, role |-> "You", originalBlockId |-> id]

\* the blocks prop: what GET /api/blocks answers
BlocksProp == [i \in DOMAIN getBlocks |-> getBlocks[i].id]

\* the useState initialiser
InitialMessages(bs, n) ==
    IF Len(bs) = 0 THEN <<Placeholder(n)>>
    ELSE [i \in DOMAIN bs |-> Converted(bs[i])]

\* the setMessages updater of the effect on [blocks]
SyncedMessages(prevMessages, bs, n) ==
    LET at(id) == {i \in DOMAIN prevMessages : prevMessages[i].id = id}
        \* new Map(entries): the last entry of a key is the one kept
        existingMessage(id) ==
            prevMessages[CHOOSE i \in at(id) : \A j \in at(id) : j <= i]
        newMessages ==
            [i \in DOMAIN bs |->
                IF at(bs[i]) # {}
                   /\ existingMessage(bs[i]).originalBlockId = bs[i]
                THEN existingMessage(bs[i])
                ELSE Converted(bs[i])]
        blockIds == Range(bs)
        userMessages ==
            Filter(prevMessages,
                   {msg \in Range(prevMessages) :
                       msg.originalBlockId = Null \/ msg.id \notin blockIds})
        allMessages == newMessages \o userMessages
    IN  IF Len(allMessages) = 0 THEN <<Placeholder(n)>> ELSE allMessages

\* how many nanoid() calls a list of messages that starts at n has made
Drawn(ms, n) == IF nanoid(n) \in {m.id : m \in Range(ms)} THEN n + 1 ELSE n

ViewFrame ==
    UNCHANGED <<store, now, sockets, req, res, delivered, before, suspended,
                log, fresh>>

\* first render: the initialiser, then the effect
Mount ==
    /\ Idle
    /\ ~view.mounted
    /\ LET bs == BlocksProp
           first == InitialMessages(bs, view.nanoids)
           n == Drawn(first, view.nanoids)
           ms == SyncedMessages(first, bs, n)
       IN  view' = [mounted |-> TRUE, blocks |-> bs, messages |-> ms,
                    nanoids |-> Drawn(ms, n)]
    /\ ViewFrame

\* the parent renders a changed block list: the effect runs
ViewSync ==
    /\ Idle
    /\ view.mounted
    /\ BlocksProp # view.blocks
    /\ LET ms == SyncedMessages(view.messages, BlocksProp, view.nanoids)
       IN  view' = [view EXCEPT !.blocks = BlocksProp, !.messages = ms,
                                !.nanoids = Drawn(ms, @)]
    /\ ViewFrame

\* handleMessageUpdate(id, { role })
handleMessageUpdate(id, role) ==
    /\ view.mounted
    /\ id \in {m.id : m \in Range(view.messages)}
    /\ view' = [view EXCEPT !.messages =
                    [i \in DOMAIN @ |->
                        IF @[i].id = id THEN [@[i] EXCEPT !.role = role]
                        ELSE @[i]]]
    /\ ViewFrame

\* handleMessageDelete(id)
handleMessageDelete(id) ==
    /\ view.mounted
    /\ id \in {m.id : m \in Range(view.messages)}
    /\ view' = [view EXCEPT !.messages =
                    Filter(@, {msg \in Range(@) : msg.id # id})]
    /\ ViewFrame

\* handleAddMessage()
handleAddMessage ==
    /\ view.mounted
    /\ Cardinality({i \in DOMAIN view.messages :
                       view.messages[i].originalBlockId = Null}) < ViewLocal
    /\ view' = [view EXCEPT !.messages = Append(@, Placeholder(view.nanoids)),
                            !.nanoids = @ + 1]
    /\ ViewFrame

MessageIds == {m.id : m \in Range(view.messages)}

ViewCap == Issued(ViewBlocks, 0, 0) /\ view.nanoids <= ViewBlocks + ViewLocal + 1

NextView ==
    \/ \E body \in NewBlockBodies \ {BadBody} : PostBlocks(body, 0) /\ ViewCap'
    \/ \E id \in IssuedBlocks : DeleteBlock(id, 0)
    \/ RequestDone
    \/ Mount
    \/ ViewSync
    \/ \E id \in MessageIds, role \in MessageRole : handleMessageUpdate(id, role)
    \/ \E id \in MessageIds : handleMessageDelete(id)
    \/ handleAddMessage /\ ViewCap'

SpecView == Init /\ [][NextView]_vars

\* ---------------------------------------------------------- SpecSearch
\* Blocks with titles, contents and tags in both cases, and searches.
SearchBodies ==
    { [title |-> <<"a">>],
      [title |-> <<"A", "b">>],
      [title |-> <<"x">>, content |-> <<"B", "a">>],
      [title |-> <<"x">>, tags |-> << <<"x">>, <<"a", "B">> >>] }
SearchQueries == {<<>>, <<"a">>, <<"A">>, <<"a", "b">>, <<"B">>, <<"b", "a">>}

NextSearch ==
    \/ \E body \in SearchBodies :
           PostBlocks(body, 0) /\ Issued(SearchBlocks, 0, 0)'
    \/ \E id \in IssuedBlocks : DeleteBlock(id, 0)
    \/ \E query \in SearchQueries : Search(query)
    \/ RequestDone

SpecSearch == Init /\ [][NextSearch]_vars

\* ================================================================ claims
PostBlocksOp == "POST /api/blocks"
PutBlockOp == "PUT /api/blocks/:id"
DeleteBlockOp == "DELETE /api/blocks/:id"
PostLinksOp == "POST /api/links"
DeleteLinkOp == "DELETE /api/links/:id"
GetCommentsOp == "GET /api/blocks/:blockId/comments"
PostCommentsOp == "POST /api/blocks/:blockId/comments"
DeleteCommentOp == "DELETE /api/comments/:id"

MutationOps == {PostBlocksOp, PutBlockOp, DeleteBlockOp, PostLinksOp,
                DeleteLinkOp, PostCommentsOp, DeleteCommentOp}
ReadOps == {"GET /api/blocks", "GET /api/blocks/:id", "GET /api/search",
            "GET /api/links", GetCommentsOp, "GET /api/graph"}

\* the event kind that names the mutation a route performs
KindOf(op) ==
    CASE op = PostBlocksOp -> "block_created"
      [] op = PutBlockOp -> "block_updated"
      [] op = DeleteBlockOp -> "block_deleted"
      [] op = PostLinksOp -> "link_created"
      [] op = DeleteLinkOp -> "link_deleted"
      [] op = PostCommentsOp -> "comment_created"
      [] op = DeleteCommentOp -> "comment_deleted"

\* the registered connections whose transport is open
OpenClients == {c \in Range(clients) : readyState[c] = "OPEN"}

\* a link of table joins a and b, in either direction
Linked(table, a, b) ==
    \E l \in Range(table) :
        \/ (l.fromBlockId = a /\ l.toBlockId = b)
        \/ (l.fromBlockId = b /\ l.toBlockId = a)

\* a link of table has id as an endpoint
Incident(table, id) ==
    {l \in Range(table) : l.fromBlockId = id \/ l.toBlockId = id}

\* the comments of table on block id
Owned(table, id) == {c \in Range(table) : c.blockId = id}

\* C1. Cascade completeness: right after DELETE /api/blocks/:id has deleted
\* block B, the store holds no block B, no link with B as source or
\* destination and no comment on B.
CascadeCompleteness ==
    (req.op = DeleteBlockOp /\ res.path # "notfound") =>
        /\ ~MapHas(blocks, req.id)
        /\ Incident(links, req.id) = {}
        /\ Owned(comments, req.id) = {}

\* a block was deleted that had a link coming in, a link or comment of its own
CascadeWitness ==
    /\ req.op = DeleteBlockOp
    /\ res.status = 200
    /\ \E l \in Range(before.links) :
           l.toBlockId = req.id /\ l.fromBlockId # req.id
    /\ Owned(before.comments, req.id) # {}
    /\ Cardinality(Range(before.blocks)) > 1

\* C2. Duplicate-link rejection: a well-formed POST /api/links for a pair of
\* blocks that a stored link already joins, in either direction, is answered
\* with a client error and leaves the link table as it was (no link is
\* inserted).
DuplicateLinkRejected ==
    (/\ req.op = PostLinksOp
     /\ insertLinkSchema(req.body)
     /\ Linked(before.links, req.body.fromBlockId, req.body.toBlockId)) =>
        /\ res.status \in 400..499
        /\ res.path = "conflict"
        /\ links = before.links

\* the link asked for is the reverse of a stored one
DuplicateLinkWitness ==
    /\ req.op = PostLinksOp
    /\ insertLinkSchema(req.body)
    /\ req.body.fromBlockId # req.body.toBlockId
    /\ \E l \in Range(before.links) :
           /\ l.fromBlockId = req.body.toBlockId
           /\ l.toBlockId = req.body.fromBlockId
    /\ res.status = 400

\* C3. A well-formed POST /api/links that names a source or destination
\* absent from the block table is answered 404 and creates no link.
MissingEndpointRejected ==
    (/\ req.op = PostLinksOp
     /\ insertLinkSchema(req.body)
     /\ \/ ~MapHas(before.blocks, req.body.fromBlockId)
        \/ ~MapHas(before.blocks, req.body.toBlockId)) =>
        /\ res.status = 404
        /\ links = before.links

RECURSIVE Placements(_, _)
\* every node of a thread tree with the node it is a reply of (Null: a root)
Placements(nodes, container) ==
    IF nodes = <<>> THEN <<>>
    ELSE <<[id |-> Head(nodes).id, within |-> container]>>
         \o Placements(Head(nodes).replies, Head(nodes).id)
         \o Placements(Tail(nodes), container)

Occurrences(s, x) == Cardinality({i \in DOMAIN s : s[i] = x})

\* C4. Thread tree correctness: in the tree GET /api/blocks/:blockId/comments
\* returns, every stored comment of the block appears exactly once, in the
\* replies of its parent when the parent is a stored comment of that block
\* and as a root otherwise, and the tree has as many nodes as the block has
\* comments.
ThreadTreeCorrect ==
    (req.op = GetCommentsOp /\ res.status = 200) =>
        LET own == Owned(comments, req.id)
            placed == Placements(res.body, Null)
            home(c) == IF \E p \in own : p.id = c.parentId
                       THEN c.parentId ELSE Null
        IN  /\ \A c \in own :
                   Occurrences(placed, [id |-> c.id, within |-> home(c)]) = 1
            /\ Len(placed) = Cardinality(own)

\* C5. deleteComment does not cascade: after DELETE /api/comments/:id has
\* deleted comment P, every reply of P is still stored and is a root of the
\* tree getCommentsForBlock returns for its block.
RepliesResurfaceAsRoots ==
    (req.op = DeleteCommentOp /\ res.path # "notfound") =>
        \A r \in Range(before.comments) :
            (r.parentId # Null /\ r.parentId = req.id) =>
                /\ r \in Range(comments)
                /\ LET roots == getCommentsForBlock(r.blockId)
                   IN  \E i \in DOMAIN roots : roots[i].id = r.id

\* C6. Broadcast fan-out: when a mutation request is answered with success,
\* every registered connection with an open transport has been sent exactly
\* one event, and its kind names the mutation.
BroadcastFanOut ==
    (req.op \in MutationOps /\ res.status = 200) =>
        \A c \in OpenClients :
            /\ Len(delivered[c]) = 1
            /\ delivered[c][1].json.type = KindOf(req.op)

\* a mutation succeeded with two open connections and one that is closing
FanOutWitness ==
    /\ req.op \in MutationOps
    /\ res.status = 200
    /\ Cardinality(OpenClients) >= 2
    /\ \A c \in OpenClients : Len(delivered[c]) = 1

\* C7. Per-connection send isolation: when a send of a broadcast threw, every
\* registered open connection but the one whose send threw was sent the event.
SendIsolation ==
    res.path = "catch" =>
        Cardinality({c \in OpenClients : delivered[c] = <<>>}) <= 1

\* C8. A broadcast failure never escalates: a request whose mutation was
\* applied to the store is answered with success.
BroadcastFailureContained ==
    (req.op \in MutationOps /\ Tables # before) => res.status = 200

\* C9. No partial mutation on failure: a request answered with an error
\* status leaves the block, link and comment tables as it found them.
NoMutationOnError ==
    (~Idle /\ res.status # 200) => Tables = before

\* C10. Events come from successful mutations only: a read request, and a
\* request that ends in a validation error, a not-found or a duplicate-link
\* answer, sends nothing to any connection; whatever is sent is sent by a
\* mutation route whose store call succeeded.
OnlyMutationsBroadcast ==
    /\ (req.op \in ReadOps \/ res.path \in {"invalid", "notfound", "conflict"}) =>
           delivered = NoDelivery
    /\ delivered # NoDelivery =>
           (req.op \in MutationOps /\ res.path \in {"ok", "catch"})

\* a delete of an absent link was answered 404 while a connection was open
NoBroadcastWitness ==
    /\ req.op = DeleteLinkOp
    /\ res.status = 404
    /\ OpenClients # {}
    /\ delivered = NoDelivery

GetBlockOp == "GET /api/blocks/:id"

\* a mutation route ran its store call and went on to the broadcast
Broadcasting == req.op \in MutationOps /\ res.path \in {"ok", "catch"}

\* the other endpoint of link l, seen from block id
OtherEnd(l, id) == IF l.fromBlockId = id THEN l.toBlockId ELSE l.fromBlockId

\* C11. Link count correctness: the linkCount GET /api/blocks/:id returns for
\* block B is the number of stored links that have B as source or destination
\* and whose other endpoint is a stored block.
LinkCountCorrect ==
    (req.op = GetBlockOp /\ res.status = 200) =>
        res.body.linkCount =
            Cardinality({l \in Incident(links, req.id) :
                            MapHas(blocks, OtherEnd(l, req.id))})

\* C12. A registered connection whose transport is not open when a mutation
\* is broadcast is sent nothing, the open ones are all sent the event when no
\* send throws, whatever is sent is the one event of the request at hand
\* (nothing is queued for later), and the handler leaves the registry as it
\* is.
NotOpenSkipped ==
    /\ [](/\ Broadcasting =>
                /\ \A c \in Range(clients) \ OpenClients : delivered[c] = <<>>
                /\ res.path = "ok" =>
                       \A c \in OpenClients : Len(delivered[c]) = 1
          /\ \A c \in Conns :
                delivered[c] # <<>> =>
                    /\ Broadcasting
                    /\ Len(delivered[c]) = 1
                    /\ delivered[c][1].json.type = KindOf(req.op))
    /\ [][(Idle /\ ~Idle') => clients' = clients]_vars

\* a mutation was broadcast past a registered connection that is closing
NotOpenWitness ==
    /\ Broadcasting
    /\ res.path = "ok"
    /\ \E c \in Range(clients), d \in OpenClients :
           /\ readyState[c] = "CLOSING"
           /\ delivered[c] = <<>>
           /\ delivered[d] # <<>>

\* the event a mutation route broadcasts, read from the request and the store
EventOf ==
    [ type |-> KindOf(req.op),
      data |-> CASE req.op = PostBlocksOp -> blocks[Len(blocks)]
                 [] req.op = PutBlockOp -> MapGet(blocks, req.id)
                 [] req.op = PostLinksOp -> links[Len(links)]
                 [] req.op = PostCommentsOp -> comments[Len(comments)]
                 [] OTHER -> [id |-> req.id] ]

\* C13. Registry membership: the registry starts empty and always holds
\* exactly the connections that joined and have not since emitted 'close' or
\* 'error'; only a connection of the registry is sent anything, and what it
\* is sent is the event of the request at hand, never an earlier one.
RegistryMembership ==
    /\ clients = <<>>
    /\ [](/\ Range(clients) = live
          /\ \A c \in Conns :
                delivered[c] # <<>> =>
                    /\ c \in live
                    /\ Broadcasting
                    /\ delivered[c] = <<JSONstringify(EventOf)>>)

\* an event reached a connection of the registry while another connection,
\* which had joined and then emitted 'error', got nothing
RegistryWitness ==
    \E c \in Conns, d \in live :
        /\ readyState[c] = "CLOSING"
        /\ c \notin Range(clients)
        /\ delivered[c] = <<>>
        /\ delivered[d] # <<>>

\* the update named by the request was applied to a stored block
Updated == req.op = PutBlockOp /\ res.path \in {"ok", "catch"}

\* C14. id and createdAt of a block are the values createBlock assigned: no
\* request changes them on a stored block, an update that went through sets
\* updatedAt to the time of the update and leaves every other updatedAt, and
\* updatedAt >= createdAt.
BlockIdentityKept ==
    /\ \A b \in Range(blocks) :
           /\ b.id \in IssuedBlocks
           /\ b.createdAt <= b.updatedAt
    /\ ~Idle =>
           \A old \in Range(before.blocks) :
               MapHas(blocks, old.id) =>
                   LET new == MapGet(blocks, old.id)
                   IN  /\ new.createdAt = old.createdAt
                       /\ new.updatedAt =
                              IF Updated /\ old.id = req.id
                              THEN now ELSE old.updatedAt
    /\ Updated =>
           /\ Len(blocks) = Len(before.blocks)
           /\ \A i \in DOMAIN blocks : blocks[i].id = before.blocks[i].id

\* a later update whose body carried an id and a createdAt went through
BlockIdentityWitness ==
    /\ Updated
    /\ {"id", "createdAt"} \subseteq DOMAIN req.body
    /\ MapGet(blocks, req.id).createdAt < MapGet(blocks, req.id).updatedAt

\* C15. An update changes only the fields it names and updatedAt: the other
\* fields of the block, every other block, the links and the comments are as
\* the request found them, and each field it names has the value it gave.
UpdateFrame ==
    Updated =>
        LET named == DOMAIN req.body \cap insertBlockKeys
        IN  /\ links = before.links
            /\ comments = before.comments
            /\ DOMAIN blocks = DOMAIN before.blocks
            /\ \A i \in DOMAIN blocks :
                   LET old == before.blocks[i]
                       new == blocks[i]
                   IN  IF old.id # req.id THEN new = old
                       ELSE /\ DOMAIN new = DOMAIN old
                            /\ \A f \in DOMAIN old \ (named \cup {"updatedAt"}) :
                                   new[f] = old[f]
                            /\ \A f \in named : new[f] = req.body[f]

\* a title was updated on a block that had content, next to another block, a
\* link and a comment
UpdateFrameWitness ==
    /\ Updated
    /\ DOMAIN req.body = {"title"}
    /\ MapGet(before.blocks, req.id).content # <<>>
    /\ MapGet(before.blocks, req.id).title # req.body.title
    /\ Len(blocks) > 1
    /\ links # <<>>
    /\ comments # <<>>

\* C16. An absent identifier gives not-found: GET, PUT (with a valid body)
\* and DELETE of an absent block, DELETE of an absent link and DELETE of an
\* absent comment are answered 404, change no table and send no event.
AbsentIdNotFound ==
    (\/ /\ req.op \in {GetBlockOp, DeleteBlockOp}
        /\ ~MapHas(before.blocks, req.id)
     \/ /\ req.op = PutBlockOp
        /\ insertBlockSchemaPartial(req.body)
        /\ ~MapHas(before.blocks, req.id)
     \/ /\ req.op = DeleteLinkOp
        /\ ~MapHas(before.links, req.id)
     \/ /\ req.op = DeleteCommentOp
        /\ ~MapHas(before.comments, req.id)) =>
        /\ res.status = 404
        /\ res.path = "notfound"
        /\ Tables = before
        /\ delivered = NoDelivery

\* a block that no longer exists was asked to be deleted while a link still
\* named its identifier
AbsentIdWitness ==
    /\ req.op = DeleteBlockOp
    /\ res.status = 404
    /\ Incident(before.links, req.id) # {}

\* C17. One event per mutation: every connection that is sent something is
\* sent exactly one message, whose kind names the route's mutation and whose
\* payload is the created or updated record as now stored or, for a delete,
\* the deleted identifier alone.
EventMatchesMutation ==
    Broadcasting =>
        \A c \in Conns :
            \/ delivered[c] = <<>>
            \/ /\ Len(delivered[c]) = 1
               /\ delivered[c][1].json.type = KindOf(req.op)
               /\ delivered[c][1].json.data =
                      CASE req.op \in {PostBlocksOp, PutBlockOp} ->
                               MapGet(blocks, delivered[c][1].json.data.id)
                        [] req.op = PostLinksOp ->
                               MapGet(links, delivered[c][1].json.data.id)
                        [] req.op = PostCommentsOp ->
                               MapGet(comments, delivered[c][1].json.data.id)
                        [] OTHER -> [id |-> req.id]
               /\ req.op = PutBlockOp => delivered[c][1].json.data.id = req.id

\* an update that changed a title was broadcast
EventWitness ==
    /\ Updated
    /\ MapGet(before.blocks, req.id).title # MapGet(blocks, req.id).title
    /\ \E c \in Conns : delivered[c] # <<>>

\* the record or identifier an event speaks of
Subject(c) == delivered[c][1].json.data

\* C18. Ordering within a mutation request: store, then fan-out, then the
\* response.  What a connection is sent speaks of a mutation the store
\* already shows, and a success response is written only after the broadcast
\* has gone through every registered open connection.
StoreThenEventThenResponse ==
    /\ \A c \in Conns :
           delivered[c] # <<>> =>
               CASE req.op = PostBlocksOp ->
                        /\ Subject(c) \in Range(blocks)
                        /\ Subject(c) \notin Range(before.blocks)
                 [] req.op = PutBlockOp -> Subject(c) \in Range(blocks)
                 [] req.op = PostLinksOp ->
                        /\ Subject(c) \in Range(links)
                        /\ Subject(c) \notin Range(before.links)
                 [] req.op = PostCommentsOp ->
                        /\ Subject(c) \in Range(comments)
                        /\ Subject(c) \notin Range(before.comments)
                 [] req.op = DeleteBlockOp ->
                        /\ ~MapHas(blocks, Subject(c).id)
                        /\ MapHas(before.blocks, Subject(c).id)
                 [] req.op = DeleteLinkOp ->
                        /\ ~MapHas(links, Subject(c).id)
                        /\ MapHas(before.links, Subject(c).id)
                 [] req.op = DeleteCommentOp ->
                        /\ ~MapHas(comments, Subject(c).id)
                        /\ MapHas(before.comments, Subject(c).id)
                 [] OTHER -> FALSE
    /\ (req.op \in MutationOps /\ res.path = "ok") =>
           \A c \in OpenClients : delivered[c] # <<>>

\* a block was deleted, a connection was told, and the request succeeded
OrderingWitness ==
    /\ req.op = DeleteBlockOp
    /\ res.path = "ok"
    /\ \E c \in OpenClients : delivered[c] # <<>>
    /\ ~MapHas(blocks, req.id)

\* the unordered pair of blocks link l joins
PairOf(l) == {l.fromBlockId, l.toBlockId}

\* C19. No two stored links join the same unordered pair of blocks, also
\* when POST /api/links requests for one pair overlap between their
\* duplicate check and their insert.
AtMostOneLinkPerPair ==
    \A i, j \in DOMAIN links : PairOf(links[i]) = PairOf(links[j]) => i = j

\* C20. Every connection that is sent a broadcast is sent the same text, and
\* a registered connection that is closing does not keep the open ones from
\* being sent it.
IdenticalCopies ==
    /\ \A c, d \in Conns :
           (delivered[c] # <<>> /\ delivered[d] # <<>>) =>
               delivered[c] = delivered[d]
    /\ (/\ req.op \in MutationOps
        /\ res.path = "ok"
        /\ \E c \in Range(clients) : readyState[c] = "CLOSING") =>
           \A d \in OpenClients : delivered[d] # <<>>

\* two connections were sent the event of one mutation
IdenticalCopiesWitness ==
    \E c, d \in Conns :
        /\ c # d
        /\ delivered[c] # <<>>
        /\ delivered[d] = delivered[c]

\* two characters are the same letter, whatever their case
SameLetter(x, y) ==
    \/ x = y
    \/ {x, y} = {"A", "a"}
    \/ {x, y} = {"B", "b"}

\* str contains q as a substring, ignoring case
ContainsIgnoringCase(str, q) ==
    \E off \in 0..Len(str) :
        /\ off + Len(q) <= Len(str)
        /\ \A k \in DOMAIN q : SameLetter(str[off + k], q[k])

\* block b matches query q: in its title, its content or one of its tags
Matches(b, q) ==
    \/ ContainsIgnoringCase(b.title, q)
    \/ ContainsIgnoringCase(b.content, q)
    \/ \E t \in DOMAIN b.tags : ContainsIgnoringCase(b.tags[t], q)

\* the place of the record with identifier id in table
PlaceIn(table, id) == CHOOSE i \in DOMAIN table : table[i].id = id

\* C21. Search: GET /api/search?q= answers with exactly the stored blocks
\* that contain the query, ignoring case, in their title, their content or
\* one of their tags, each once, in the order of the block table.
SearchExact ==
    (req.op = "GET /api/search" /\ res.status = 200) =>
        /\ Range(res.body) = {b \in Range(blocks) : Matches(b, req.body.q)}
        /\ \A i, j \in DOMAIN res.body :
               i < j => PlaceIn(blocks, res.body[i].id)
                            < PlaceIn(blocks, res.body[j].id)

\* a search found a block by a tag alone that holds the query in another
\* case, and passed another block over
SearchWitness ==
    /\ req.op = "GET /api/search"
    /\ res.status = 200
    /\ \E b \in Range(res.body) :
           /\ ~ContainsIgnoringCase(b.title, req.body.q)
           /\ ~ContainsIgnoringCase(b.content, req.body.q)
           /\ \A t \in DOMAIN b.tags : ~includes(b.tags[t], req.body.q)
    /\ Len(res.body) >= 1
    /\ Len(res.body) < Len(blocks)

\* what a read route answers in the state at hand
ReadAnswer ==
    CASE req.op = "GET /api/blocks" -> Response(200, "ok", getBlocks)
      [] req.op = GetBlockOp ->
             IF MapHas(blocks, req.id)
             THEN Response(200, "ok", getBlockWithLinks(req.id))
             ELSE Response(404, "notfound", "Block not found")
      [] req.op = "GET /api/search" ->
             IF req.body.q = <<>>
             THEN Response(400, "invalid", "Query parameter required")
             ELSE Response(200, "ok", searchBlocks(req.body.q))
      [] req.op = "GET /api/links" -> Response(200, "ok", getLinks)
      [] req.op = GetCommentsOp ->
             Response(200, "ok", getCommentsForBlock(req.id))
      [] req.op = "GET /api/graph" -> Response(200, "ok", getGraphData)

\* C22. Reads are free of side effects and repeatable: a read route leaves
\* the three tables and the registry as it found them, and the same read
\* made again in the state it leaves gives the answer it gave.
ReadsRepeatable ==
    /\ [](req.op \in ReadOps => (Tables = before /\ res = ReadAnswer))
    /\ [][(Idle /\ req'.op \in ReadOps) =>
              (clients' = clients /\ readyState' = readyState)]_vars

\* the comments of a block that is gone were read, and found
ReadsWitness ==
    /\ req.op = GetCommentsOp
    /\ ~MapHas(blocks, req.id)
    /\ res.body # <<>>
    /\ clients # <<>>

RECURSIVE Ordered(_)
\* a list of thread nodes, and every list of replies below it, is in
\* ascending order of creation time, and of insertion among equal times
Ordered(nodes) ==
    /\ \A i, j \in DOMAIN nodes :
           i < j =>
               \/ nodes[i].createdAt < nodes[j].createdAt
               \/ /\ nodes[i].createdAt = nodes[j].createdAt
                  /\ PlaceIn(comments, nodes[i].id) < PlaceIn(comments, nodes[j].id)
    /\ \A i \in DOMAIN nodes : Ordered(nodes[i].replies)

\* C23. Thread ordering: the roots GET /api/blocks/:blockId/comments returns
\* and every list of replies in the tree are in ascending order of creation
\* time; comments created at the same time keep their insertion order.
ThreadOrdered ==
    (req.op = GetCommentsOp /\ res.status = 200) => Ordered(res.body)

\* a thread with two roots and two replies to one comment, created at
\* different times
ThreadOrderedWitness ==
    /\ req.op = GetCommentsOp
    /\ Len(res.body) >= 1
    /\ \E i \in DOMAIN res.body :
           /\ Len(res.body[i].replies) >= 2
           /\ res.body[i].replies[1].createdAt < res.body[i].replies[2].createdAt

\* C26. Referential integrity: every stored link has both endpoints in the
\* block table and every stored comment has its block in the block table.
ReferentialIntegrity ==
    /\ \A l \in Range(links) :
           MapHas(blocks, l.fromBlockId) /\ MapHas(blocks, l.toBlockId)
    /\ \A c \in Range(comments) : MapHas(blocks, c.blockId)

\* C27. Frame of deleteBlock: DELETE /api/blocks/:id of a stored block B
\* leaves every other block, every link with neither endpoint B and every
\* comment on another block in place and unchanged, and removes nothing else
\* than B, its links and its comments; of an absent block it removes nothing.
DeleteBlockFrame ==
    req.op = DeleteBlockOp =>
        LET OtherBlock(b) == b.id # req.id
            NotIncident(l) == l.fromBlockId # req.id /\ l.toBlockId # req.id
            NotOwned(c) == c.blockId # req.id
        IN  IF MapHas(before.blocks, req.id)
            THEN /\ blocks = SelectSeq(before.blocks, OtherBlock)
                 /\ links = SelectSeq(before.links, NotIncident)
                 /\ comments = SelectSeq(before.comments, NotOwned)
            ELSE Tables = before

\* a block was deleted next to another block that has a link and a comment
DeleteBlockFrameWitness ==
    /\ req.op = DeleteBlockOp
    /\ MapHas(before.blocks, req.id)
    /\ blocks # <<>>
    /\ links # <<>>
    /\ comments # <<>>

\* C28. No stored link has its source equal to its destination.
NoSelfLink ==
    \A l \in Range(links) : l.fromBlockId # l.toBlockId

RECURSIVE IsSubSeq(_, _)
\* r is what is left of a when some of its elements are taken out
IsSubSeq(r, a) ==
    IF r = <<>> THEN TRUE
    ELSE IF a = <<>> THEN FALSE
    ELSE IF Head(r) = Head(a) THEN IsSubSeq(Tail(r), Tail(a))
    ELSE IsSubSeq(r, Tail(a))

\* C29. Per-connection event order: what a connection has been sent, in
\* the order it was sent it, is the events of the mutations in the order the
\* store applied them, with none out of place (some may be missing: those
\* of the time it was not registered and open), also when the handlers of
\* several requests are suspended at once.
EventsInApplyOrder ==
    \A c \in Conns : IsSubSeq(log.received[c], log.applied)

\* two handlers were suspended at once, and a connection was sent the
\* events of both
EventsInOrderWitness ==
    \E c \in Conns :
        /\ Len(log.received[c]) >= 2
        /\ log.received[c][1] # log.received[c][2]
        /\ req.op \in MutationOps
        /\ suspended # <<>>

\* what the server answers the query of key when its tables are t
ViewOf(key, t) ==
    CASE key = BlocksKey -> getBlocksIn(t)
      [] key = GraphKey -> getGraphDataIn(t)
      [] Len(key) = 2 ->
             IF MapHas(t.blocks, key[2])
             THEN getBlockWithLinksIn(t, key[2])
             ELSE [message |-> "Block not found"]
      [] Len(key) = 3 -> [thread |-> getCommentsForBlockIn(t.comments, key[2])]

\* the browser has handled the event of the mutation at hand
Handled ==
    /\ Broadcasting
    /\ res.path = "ok"
    /\ TheClient \in OpenClients
    /\ delivered[TheClient] = <<>>

\* C24. Client cache invalidation: once the browser has handled the event
\* of a mutation, no cached query whose answer that mutation changed is
\* still marked fresh.
CacheInvalidated ==
    Handled => \A key \in fresh : ViewOf(key, Tables) = ViewOf(key, before)

\* C25. The thread view's message list is never empty: once the view is
\* rendered, whatever syncs, deletions, updates and additions follow, the
\* list holds at least one message.
MessagesNeverEmpty == view.mounted => Len(view.messages) > 0

\* the effect of ThreadView has just run
Synced == view'.mounted /\ (~view.mounted \/ view'.blocks # view.blocks)

\* C30. Thread view sync consistency: after the view syncs with a block
\* list, every message with an originalBlockId is a message of a block of
\* that list, no two messages share an id, and a message whose block is
\* still in the list keeps its role.
SyncConsistent ==
    [][Synced =>
        /\ \A i \in DOMAIN view'.messages :
              view'.messages[i].originalBlockId # Null =>
                  view'.messages[i].originalBlockId \in Range(view'.blocks)
        /\ \A i, j \in DOMAIN view'.messages :
              view'.messages[i].id = view'.messages[j].id => i = j
        /\ \A i \in DOMAIN view.messages, j \in DOMAIN view'.messages :
              (/\ view.messages[i].originalBlockId \in Range(view'.blocks)
               /\ view'.messages[j].id = view.messages[i].id)
                  => view'.messages[j].role = view.messages[i].role]_vars

====
